---- MODULE Spec2Model ----
(***************************************************************************)
(* A model of Bio.GO: the in-memory ontology store GeneOntologyNX, the     *)
(* relational backend GeneOntologySQL with its caches and its query        *)
(* markers, the relationship classes and their registry, the GO identifier *)
(* normalisation (Bio/GO/ontology.py), the rules, queries and inference    *)
(* engine of Bio/GO/inference.py, and the AnnotationCollection of          *)
(* Bio/GO/annotation.py.                                                   *)
(*                                                                         *)
(* Every handler is one atomic step.  A handler that raises part-way is    *)
(* modelled with the mutations it made before the exception left it.       *)
(***************************************************************************)
EXTENDS Integers, Sequences, FiniteSets, TLC

\* Python's None: an absent dict key, an unset owner, an omitted argument.
None == "None"

(***************************************************************************)
(* The universe of GOTerm objects the callers construct.  Two objects may  *)
(* carry the same id (tA, tC); an alias of one object may be the primary   *)
(* id of another (tB/tD, tD/tA): GOTerm.__init__ accepts any valid ids.    *)
(***************************************************************************)
TermIds == {"GO:0000001", "GO:0000002", "GO:0000003"}

Terms == {"tA", "tB", "tC", "tD"}

\* GOTerm.id
TermId(t) ==
  CASE t = "tA" -> "GO:0000001"
    [] t = "tB" -> "GO:0000002"
    [] t = "tC" -> "GO:0000001"
    [] t = "tD" -> "GO:0000003"

\* GOTerm.aliases (a list)
TermAliases(t) ==
  CASE t = "tA" -> << >>
    [] t = "tB" -> << "GO:0000003" >>
    [] t = "tC" -> << >>
    [] t = "tD" -> << "GO:0000001" >>

AliasSet(t) == {TermAliases(t)[i] : i \in 1..Len(TermAliases(t))}

\* GOTerm.__eq__: two term objects are equal when their ids are.
TermEq(t1, t2) == TermId(t1) = TermId(t2)

\* The GeneOntologyNX instances.  Spec explores the calls on o1; o2 is a
\* second ontology, which the term objects of OtherTerms may have been
\* constructed for (GOTerm(..., ontology=o2)).
Ontologies == {"o1", "o2"}

MainOntology == "o1"

OtherTerms == {"tC"}

(***************************************************************************)
(* The relationship classes and their inheritance.                         *)
(***************************************************************************)
RelClasses ==
  {"any", "inheritable", "is_a", "part_of", "regulates",
   "positively_regulates", "negatively_regulates"}

\* The classes instantiated on edges.
ConcreteClasses ==
  {"is_a", "part_of", "regulates", "positively_regulates",
   "negatively_regulates"}

\* The base class of each relationship class.
BaseClass(c) ==
  CASE c = "inheritable" -> "any"
    [] c = "is_a" -> "inheritable"
    [] c = "part_of" -> "inheritable"
    [] c = "regulates" -> "any"
    [] c = "positively_regulates" -> "regulates"
    [] c = "negatively_regulates" -> "regulates"
    [] OTHER -> None

\* issubclass(c, d); isinstance(rel, d) is IsSubclass(rel.cls, d).
IsSubclass(c, d) ==
  \/ c = d
  \/ BaseClass(c) = d
  \/ (BaseClass(c) # None /\ BaseClass(BaseClass(c)) = d)

\* The classes add_relationship is called with in the explored runs.
EdgeClasses == {"is_a", "positively_regulates"}

\* The exceptions a handler can leave with.
OK == "ok"

VARIABLES
  ontology,    \* GOTerm.ontology of every term object
  goid_dict,   \* GeneOntologyNX._goid_dict of every ontology
  dag_nodes,   \* nodes of GeneOntologyNX._internal_dag
  dag_edges,   \* edges of GeneOntologyNX._internal_dag: (src, dst) -> class
  members,     \* history: the term objects added and not removed since
  last,        \* the last store call and how it ended
  go_id,       \* the argument of _validate_and_normalize_go_id
  normalized,  \* what the call returned or raised; Pending before it
  args,        \* the arguments of a call on relationships, rules or queries
  ret,         \* what that call returned or raised; Pending before it
  db,          \* the database behind a GeneOntologySQL: its three tables
  sql,         \* the caches of the GeneOntologySQL
  collection   \* the three dictionaries of an AnnotationCollection

nxVars == << ontology, goid_dict, dag_nodes, dag_edges, members, last >>
normVars == << go_id, normalized >>
callVars == << args, ret >>
sqlVars == << db, sql >>
annVars == << collection >>
vars == << ontology, goid_dict, dag_nodes, dag_edges, members, last,
           go_id, normalized, args, ret, db, sql, collection >>

Pairs == TermIds \X TermIds

\* The state of all stores as one value, for the handlers to transform.
World ==
  [ontology |-> ontology, goid_dict |-> goid_dict, dag_nodes |-> dag_nodes,
   dag_edges |-> dag_edges, members |-> members]

Ret(w, exc) == [w |-> w, exc |-> exc]


(***************************************************************************)
(* GeneOntologyNX: the handlers, as functions from the state of the stores *)
(* to the state they leave and the exception they leave with.              *)
(***************************************************************************)

\* GeneOntologyNX._test_existence_in_internal_storage
test_existence_in_internal_storage(w, o, t) ==
  << TermId(t) \in w.dag_nodes[o], w.goid_dict[o][TermId(t)] # None >>

\* GeneOntologyNX.has_term (and Ontology.__contains__): "True", "False" or
\* the exception raised.
has_term(w, o, t) ==
  LET storage_states == test_existence_in_internal_storage(w, o, t) IN
  IF storage_states[1] /\ storage_states[2] THEN "True"
  ELSE IF ~storage_states[1] /\ ~storage_states[2] THEN "False"
  ELSE "InternalStorageInconsistentError"

\* GeneOntologyNX.add_term
add_term(w, o, t) ==
  IF w.goid_dict[o][TermId(t)] # None THEN Ret(w, "ValueError")
  ELSE IF w.ontology[t] # None THEN Ret(w, "ValueError")
  ELSE Ret([w EXCEPT
              !.ontology[t] = o,
              !.goid_dict[o] =
                 [id \in TermIds |->
                    IF id = TermId(t) \/ id \in AliasSet(t) THEN t ELSE @[id]],
              !.dag_nodes[o] = @ \cup {TermId(t)},
              !.members[o] = @ \cup {t}],
           OK)

\* GeneOntologyNX.get_term_by_id
get_term_by_id(w, o, id) ==
  IF w.goid_dict[o][id] # None
  THEN [exc |-> OK, val |-> w.goid_dict[o][id]]
  ELSE [exc |-> "NoSuchTermError", val |-> None]

\* GeneOntologyNX.remove_term.  del _goid_dict[term.id] raises the KeyError
\* that becomes NoSuchTermError; DiGraph.remove_node on a missing node
\* raises NetworkXError, which is not caught, after the del took place.
remove_term(w, o, t) ==
  IF w.goid_dict[o][TermId(t)] = None THEN Ret(w, "NoSuchTermError")
  ELSE
    LET w1 == [w EXCEPT !.goid_dict[o][TermId(t)] = None] IN
    IF TermId(t) \notin w.dag_nodes[o] THEN Ret(w1, "NetworkXError")
    ELSE Ret([w1 EXCEPT
                !.dag_nodes[o] = @ \ {TermId(t)},
                !.dag_edges[o] =
                   [p \in Pairs |->
                      IF p[1] = TermId(t) \/ p[2] = TermId(t)
                      THEN None ELSE @[p]],
                !.ontology[t] = None,
                !.members[o] = {m \in @ : TermId(m) # TermId(t)}],
             OK)

\* One round of the loop of add_relationship: add the term unless the
\* ontology contains it.
add_if_missing(w, o, t) ==
  LET h == has_term(w, o, t) IN
  IF h = "InternalStorageInconsistentError" THEN Ret(w, h)
  ELSE IF h = "False" THEN add_term(w, o, t)
  ELSE Ret(w, OK)

\* GeneOntologyNX.add_relationship.  DiGraph.add_edge keeps one edge per
\* (src, dst) and overwrites its data.
add_relationship(w, o, s, d, rel) ==
  LET r1 == add_if_missing(w, o, s) IN
  IF r1.exc # OK THEN r1
  ELSE
    LET r2 == add_if_missing(r1.w, o, d) IN
    IF r2.exc # OK THEN r2
    ELSE Ret([r2.w EXCEPT !.dag_edges[o][<< TermId(s), TermId(d) >>] = rel],
             OK)

\* NoSuchRelationshipError.__init__: the exception that leaves the
\* constructor.  With a subject or an object given, both are turned into
\* strings and the message then reads .id of those strings.
NoSuchRelationshipError_init(subject_term, relation, object_term) ==
  IF subject_term = None /\ object_term = None
  THEN "NoSuchRelationshipError"
  ELSE "AttributeError"

\* GeneOntologyNX.remove_relationship.  The relationship argument is not
\* read; the exception is built as NoSuchRelationshipError(subject, object),
\* binding the object to the `relation` parameter.
remove_relationship(w, o, s, d, rel) ==
  IF w.dag_edges[o][<< TermId(s), TermId(d) >>] = None
  THEN Ret(w, NoSuchRelationshipError_init(s, d, None))
  ELSE Ret([w EXCEPT !.dag_edges[o][<< TermId(s), TermId(d) >>] = None], OK)

\* A GORelationship instance.
Relationship(cls, subject_term, object_term) ==
  [cls |-> cls, subject_term |-> subject_term, object_term |-> object_term]

\* GORelationship.__eq__
RelEq(r1, r2) ==
  /\ TermEq(r1.subject_term, r2.subject_term)
  /\ TermEq(r1.object_term, r2.object_term)
  /\ r1.cls = r2.cls

\* GeneOntologyNX.get_relationships; s, d are terms or None.  The list is
\* modelled as the set of its elements (a DiGraph yields no edge twice).
get_relationships(w, o, s, d) ==
  LET E == {p \in Pairs : w.dag_edges[o][p] # None}
      result ==
        IF s = None /\ d = None THEN E
        ELSE IF d = None THEN {p \in E : p[1] = TermId(s)}
        ELSE IF s = None THEN {p \in E : p[2] = TermId(d)}
        ELSE {p \in {q \in E : q[1] = TermId(s)} : p[2] = TermId(d)}
  IN
  IF \E p \in result :
       w.goid_dict[o][p[1]] = None \/ w.goid_dict[o][p[2]] = None
  THEN [exc |-> "KeyError", val |-> {}]
  ELSE [exc |-> OK,
        val |-> {Relationship(w.dag_edges[o][p], w.goid_dict[o][p[1]],
                              w.goid_dict[o][p[2]]) : p \in result}]

\* has_relationship comparing classes for equality instead of isinstance.
has_relationship_same_class(w, o, s, d, relationship) ==
  \E rel \in get_relationships(w, o, s, d).val : rel.cls = relationship

\* Ontology.has_relationship; relationship defaults to GORelationship.
has_relationship(w, o, s, d, relationship) ==
  \E rel \in get_relationships(w, o, s, d).val :
    IsSubclass(rel.cls, relationship)

\* DiGraph.degree of a node: in-degree plus out-degree, a self-loop twice.
Degree(w, o, id) ==
  Cardinality({p \in Pairs : w.dag_edges[o][p] # None /\ p[1] = id})
  + Cardinality({p \in Pairs : w.dag_edges[o][p] # None /\ p[2] = id})

\* GeneOntologyNX.orphaned_terms: one yield per node of degree 0, as the
\* set of (node, term yielded for it).
orphaned_terms(w, o) ==
  {<< id, w.goid_dict[o][id] >> :
     id \in {n \in w.dag_nodes[o] : Degree(w, o, n) = 0}}

(***************************************************************************)
(* The calls.                                                              *)
(***************************************************************************)
MaxEdges == 2

NumEdges(w) ==
  Cardinality({x \in Ontologies \X Pairs : w.dag_edges[x[1]][x[2]] # None})

\* What `last` keeps of a call: the method and the exception it left with.
Call(op, exc) == [op |-> op, exc |-> exc]

Commit(r, call) ==
  /\ ontology' = r.w.ontology
  /\ goid_dict' = r.w.goid_dict
  /\ dag_nodes' = r.w.dag_nodes
  /\ dag_edges' = r.w.dag_edges
  /\ members' = r.w.members
  /\ last' = call

\* Fresh ontologies; the terms of OtherTerms may be owned by o2.
InitNX ==
  /\ ontology \in [Terms -> {None, "o2"}]
  /\ \A t \in Terms \ OtherTerms : ontology[t] = None
  /\ goid_dict = [o \in Ontologies |-> [id \in TermIds |-> None]]
  /\ dag_nodes = [o \in Ontologies |-> {}]
  /\ dag_edges = [o \in Ontologies |-> [p \in Pairs |-> None]]
  /\ members = [o \in Ontologies |-> {}]
  /\ last = Call("new", OK)

AddTerm(o, t) ==
  LET r == add_term(World, o, t) IN
  /\ Commit(r, Call("add_term", r.exc))
  /\ UNCHANGED << normVars, callVars, sqlVars, annVars >>

RemoveTerm(o, t) ==
  LET r == remove_term(World, o, t) IN
  /\ Commit(r, Call("remove_term", r.exc))
  /\ UNCHANGED << normVars, callVars, sqlVars, annVars >>

AddRelationship(o, s, d, rel) ==
  LET r == add_relationship(World, o, s, d, rel) IN
  /\ NumEdges(r.w) <= MaxEdges
  /\ Commit(r, Call("add_relationship", r.exc))
  /\ UNCHANGED << normVars, callVars, sqlVars, annVars >>

RemoveRelationship(o, s, d, rel) ==
  LET r == remove_relationship(World, o, s, d, rel) IN
  /\ Commit(r, Call("remove_relationship", r.exc))
  /\ UNCHANGED << normVars, callVars, sqlVars, annVars >>

NextNX ==
  \/ \E t \in Terms : AddTerm(MainOntology, t)
  \/ \E t \in Terms : RemoveTerm(MainOntology, t)
  \/ \E s \in Terms, d \in Terms, rel \in EdgeClasses :
       AddRelationship(MainOntology, s, d, rel)
  \/ \E s \in Terms, d \in Terms, rel \in EdgeClasses :
       RemoveRelationship(MainOntology, s, d, rel)

(***************************************************************************)
(* GO identifiers.  A Python string is the sequence of its characters; a   *)
(* value that is not a string (the test passes the int 1234567) has no     *)
(* characters.                                                             *)
(***************************************************************************)
NUM_GO_ID_DIGITS == 7

Str(chars) == [type |-> "str", chars |-> chars]

NotAString == [type |-> "int", chars |-> << >>]

DigitChars == {"0", "1", "2", "3", "4", "5", "6", "7", "8", "9"}

GO_PREFIX == << "G", "O", ":" >>

\* str.startswith
StartsWith(s, prefix) ==
  Len(s) >= Len(prefix) /\ SubSeq(s, 1, Len(prefix)) = prefix

\* str.isdigit: at least one character, and all of them digits.
IsDigit(s) == Len(s) > 0 /\ \A i \in 1..Len(s) : s[i] \in DigitChars

Raised(exc) == [exc |-> exc, val |-> None]

Returned(val) == [exc |-> OK, val |-> val]

\* _validate_and_normalize_go_id returning the digits without the prefix.
validate_and_normalize_go_id_digits(x) ==
  IF x.type # "str" THEN Raised("ValueError")
  ELSE
    LET s == x.chars
        digits == SubSeq(s, 4, Len(s))
    IN
    IF ~IsDigit(digits) THEN Raised("ValueError")
    ELSE IF Len(digits) # NUM_GO_ID_DIGITS THEN Raised("ValueError")
    ELSE Returned(Str(digits))

\* _validate_and_normalize_go_id.  A value without startswith raises
\* AttributeError inside the try, which becomes ValueError.
validate_and_normalize_go_id(x) ==
  IF x.type # "str" THEN Raised("ValueError")
  ELSE
    LET s == x.chars
        prefixed == StartsWith(s, GO_PREFIX) \/ TRUE
        digits == IF prefixed THEN SubSeq(s, 4, Len(s)) ELSE s
        normalized_id == IF prefixed THEN s ELSE GO_PREFIX \o s
    IN
    IF ~IsDigit(digits) THEN Raised("ValueError")
    ELSE IF Len(digits) # NUM_GO_ID_DIGITS THEN Raised("ValueError")
    ELSE Returned(Str(normalized_id))

\* The inputs explored: a prefix followed by up to MaxBodyLen characters of
\* BodyChars, and a value that is not a string.
MaxBodyLen == 8

BodyChars == {"0", "7", "a"}

Prefixes ==
  {<< >>, GO_PREFIX, << "G", "O" >>, << "X", "Y", ":" >>, << "1", "2", "3" >>}

Bodies == UNION {[1..k -> BodyChars] : k \in 0..MaxBodyLen}

NormInputs == {Str(p \o b) : p \in Prefixes, b \in Bodies} \cup {NotAString}

Pending == [exc |-> "pending", val |-> None]

InitNorm ==
  /\ go_id \in NormInputs
  /\ normalized = Pending

\* No identifier is being normalised.
InitNormIdle ==
  /\ go_id = Str(<< >>)
  /\ normalized = Pending

\* No call on relationships, rules or queries is being made.
NoCall == [fn |-> "none"]

InitCallIdle ==
  /\ args = NoCall
  /\ ret = Pending

\* No term is owned yet.
InitNXIdle ==
  /\ InitNX
  /\ \A t \in Terms : ontology[t] = None

\* The call _validate_and_normalize_go_id(go_id).
Normalize ==
  /\ normalized = Pending
  /\ normalized' = validate_and_normalize_go_id(go_id)
  /\ UNCHANGED go_id
  /\ UNCHANGED << nxVars, callVars, sqlVars, annVars >>

NextNorm == Normalize

(***************************************************************************)
(* Relationship classes by name.  GORelationshipFactory keeps a registry   *)
(* from names to classes, filled once when the module is imported.         *)
(***************************************************************************)
UpperChars ==
  << "A", "B", "C", "D", "E", "F", "G", "H", "I", "J", "K", "L", "M",
     "N", "O", "P", "Q", "R", "S", "T", "U", "V", "W", "X", "Y", "Z" >>

LowerChars ==
  << "a", "b", "c", "d", "e", "f", "g", "h", "i", "j", "k", "l", "m",
     "n", "o", "p", "q", "r", "s", "t", "u", "v", "w", "x", "y", "z" >>

\* str.lower and str.upper on one character.
LowerChar(c) ==
  IF \E i \in 1..Len(UpperChars) : UpperChars[i] = c
  THEN LowerChars[CHOOSE i \in 1..Len(UpperChars) : UpperChars[i] = c]
  ELSE c

UpperChar(c) ==
  IF \E i \in 1..Len(LowerChars) : LowerChars[i] = c
  THEN UpperChars[CHOOSE i \in 1..Len(LowerChars) : LowerChars[i] = c]
  ELSE c

\* str.lower
lower(s) == [i \in 1..Len(s) |-> LowerChar(s[i])]

\* str.replace("_", " ")
replace_underscore(s) == [i \in 1..Len(s) |-> IF s[i] = "_" THEN " " ELSE s[i]]

\* The `names` attribute of each relationship class.
names(c) ==
  CASE c = "any" ->
         << << "a", "n", "y" >> >>
    [] c = "inheritable" ->
         << << "i", "n", "h", "e", "r", "i", "t", "a", "b", "l", "e" >> >>
    [] c = "is_a" ->
         << << "i", "s", "_", "a" >> >>
    [] c = "part_of" ->
         << << "p", "a", "r", "t", "_", "o", "f" >> >>
    [] c = "regulates" ->
         << << "r", "e", "g", "u", "l", "a", "t", "e", "s" >> >>
    [] c = "positively_regulates" ->
         << << "p", "o", "s", "i", "t", "i", "v", "e", "l", "y", "_",
           "r", "e", "g", "u", "l", "a", "t", "e", "s" >> >>
    [] c = "negatively_regulates" ->
         << << "n", "e", "g", "a", "t", "i", "v", "e", "l", "y", "_",
           "r", "e", "g", "u", "l", "a", "t", "e", "s" >> >>

NamesOf(c) == {names(c)[i] : i \in 1..Len(names(c))}

\* GORelationshipFactory._registry after _register_relationships: every
\* name in lower case, and the same with spaces for underscores.
registry ==
  {<< lower(n), c >> : << c, n >> \in
     {x \in RelClasses \X UNION {NamesOf(c) : c \in RelClasses} :
        x[2] \in NamesOf(x[1])}}
  \cup
  {<< replace_underscore(lower(n)), c >> : << c, n >> \in
     {x \in RelClasses \X UNION {NamesOf(c) : c \in RelClasses} :
        x[2] \in NamesOf(x[1])}}

\* from_name looking the name up as it is spelled.
from_name_as_spelled(name) ==
  IF name.type # "str" THEN Raised("AttributeError")
  ELSE
    LET key == name.chars IN
    IF \E e \in registry : e[1] = key
    THEN Returned((CHOOSE e \in registry : e[1] = key)[2])
    ELSE Raised(NoSuchRelationshipError_init(None, name, None))

\* GORelationshipFactory.from_name.  A name that is not a string has no
\* lower(); an unknown key raises NoSuchRelationshipError(relation=name).
from_name(name) ==
  IF name.type # "str" THEN Raised("AttributeError")
  ELSE
    LET key == lower(name.chars) IN
    IF \E e \in registry : e[1] = key
    THEN Returned((CHOOSE e \in registry : e[1] = key)[2])
    ELSE Raised(NoSuchRelationshipError_init(None, name, None))

\* implies requiring the very same class.
implies_same_class(self, other) ==
  /\ TermEq(self.subject_term, other.subject_term)
  /\ TermEq(self.object_term, other.object_term)
  /\ self.cls = other.cls

\* GORelationship.implies
implies(self, other) ==
  /\ TermEq(self.subject_term, other.subject_term)
  /\ TermEq(self.object_term, other.object_term)
  /\ IsSubclass(self.cls, other.cls)

\* The calls explored on relationships: from_name on spellings of the
\* registered names with at most MaxUpper capitals (or all capitals) and
\* either separator, on unregistered names and on a value that is not a
\* string; implies and == on every pair of relationships over RelTerms.
MaxUpper == 2

RECURSIVE PositionSets(_, _)
PositionSets(k, n) ==
  IF k = 0 THEN {{}}
  ELSE LET P == PositionSets(k - 1, n) IN
       P \cup {q \cup {i} : q \in P, i \in 1..n}

Spelling(n, U, sep) ==
  [i \in 1..Len(n) |->
     IF n[i] = "_" THEN sep ELSE IF i \in U THEN UpperChar(n[i]) ELSE n[i]]

Spellings(n) ==
  {Spelling(n, U, sep) :
     U \in PositionSets(MaxUpper, Len(n)) \cup {1..Len(n)},
     sep \in {"_", " "}}

UnknownNames ==
  {<<  >>,
   << "n", "o", "_", "s", "u", "c", "h", "_", "r", "e", "l" >>,
   << "i", "s", "a" >>,
   << "i", "s", "-", "a" >>,
   << "i", "s", "_", "_", "a" >>,
   << "i", "s", "_", "a", " " >>,
   << "a", "n", "y", "_" >>,
   << "p", "a", "r", "t" >>}

NameInputs ==
  {Str(x) : x \in UNION {Spellings(n) : n \in UNION {NamesOf(c) : c \in RelClasses}}}
  \cup {Str(x) : x \in UnknownNames} \cup {NotAString}

RelTerms == {"tA", "tB", "tC"}

Relationships ==
  {Relationship(c, x, y) : c \in RelClasses, x \in RelTerms, y \in RelTerms}

InitRel ==
  /\ ret = Pending
  /\ \/ \E n \in NameInputs : args = [fn |-> "from_name", name |-> n]
     \/ \E a \in Relationships, b \in Relationships :
          args = [fn |-> "implies", self |-> a, other |-> b]
     \/ \E a \in Relationships, b \in Relationships :
          args = [fn |-> "__eq__", self |-> a, other |-> b]

\* The call GORelationshipFactory.from_name(name).
FromName ==
  /\ args.fn = "from_name" /\ ret = Pending
  /\ ret' = from_name(args.name)
  /\ UNCHANGED args
  /\ UNCHANGED << nxVars, normVars, sqlVars, annVars >>

\* The call self.implies(other).
Implies ==
  /\ args.fn = "implies" /\ ret = Pending
  /\ ret' = Returned(implies(args.self, args.other))
  /\ UNCHANGED args
  /\ UNCHANGED << nxVars, normVars, sqlVars, annVars >>

\* The comparison self == other.
Eq ==
  /\ args.fn = "__eq__" /\ ret = Pending
  /\ ret' = Returned(RelEq(args.self, args.other))
  /\ UNCHANGED args
  /\ UNCHANGED << nxVars, normVars, sqlVars, annVars >>

NextRel == FromName \/ Implies \/ Eq

(***************************************************************************)
(* Inference rules (Bio/GO/inference.py).  A rule is a triple of two       *)
(* relationship names and a target: the int 1 or 2, or a third name.       *)
(***************************************************************************)
PyInt(n) == [type |-> "int", n |-> n]

Class(c) == [type |-> "class", cls |-> c]

\* The name of a class as a Python string.
Name(c) == Str(names(c)[1])

Rule(r1, r2, r3) == [r1 |-> r1, r2 |-> r2, r3 |-> r3]

\* Rules.default_rules
default_rules ==
  << Rule(Name("regulates"), Name("is_a"), PyInt(1)),
     Rule(Name("regulates"), Name("part_of"), Name("regulates")),
     Rule(Name("part_of"), Name("inheritable"), Name("part_of")),
     Rule(Name("is_a"), Name("any"), PyInt(2)) >>

\* What the class statements of ontology.py and inference.py define on the
\* classes.
ClassAttributes(k) ==
  CASE k = "GORelationship" ->
         {"__slots__", "names", "__init__", "__eq__", "__hash__", "__repr__",
          "__str__", "implies", "subject_term", "object_term"}
    [] k = "GORelationshipFactory" ->
         {"_registry", "from_name", "get_known_names",
          "_register_relationships"}
    [] k = "Rules" ->
         {"default_rules", "__init__", "_initialize", "apply"}

\* The expression GORelationship.from_name(name) of inference.py: the
\* attribute is looked up on GORelationship before anything is called.
GORelationship_from_name(name) ==
  IF "from_name" \in ClassAttributes("GORelationship")
  THEN from_name(name)
  ELSE Raised("AttributeError")

\* One pass of the loop of Rules._initialize: the target first, then the
\* two relationship names; the first exception leaves the loop.
resolve_rule(rule) ==
  LET looked_up == GORelationship_from_name(rule.r3)
      target_rel == IF rule.r3.type = "int" /\ rule.r3.n \in {1, 2}
                    THEN Returned(rule.r3)
                    ELSE IF looked_up.exc # OK THEN looked_up
                    ELSE Returned(Class(looked_up.val))
      r1 == GORelationship_from_name(rule.r1)
      r2 == GORelationship_from_name(rule.r2)
  IN
  IF target_rel.exc # OK THEN Raised(target_rel.exc)
  ELSE IF r1.exc # OK THEN Raised(r1.exc)
  ELSE IF r2.exc # OK THEN Raised(r2.exc)
  ELSE Returned(Rule(r1.val, r2.val, target_rel.val))

\* Rules.__init__ and Rules._initialize.  The empty sequence stands for
\* both None and [], which `if not rules` treats alike.
RECURSIVE resolve_rules(_, _)
resolve_rules(rules, new_rules) ==
  IF rules = << >> THEN Returned(new_rules)
  ELSE LET new_rule == resolve_rule(Head(rules)) IN
       IF new_rule.exc # OK THEN Raised(new_rule.exc)
       ELSE resolve_rules(Tail(rules), Append(new_rules, new_rule.val))

Rules_init(rules) ==
  resolve_rules(IF rules = << >> THEN default_rules ELSE rules, << >>)

\* The None that apply returns, in the shape of a relationship.
NoInference == Relationship(None, None, None)

\* Rules.apply on resolved rules.
RECURSIVE apply(_, _, _)
apply(rules, rel1, rel2) ==
  IF TermId(rel1.object_term) # TermId(rel2.subject_term) THEN NoInference
  ELSE IF rules = << >> THEN NoInference
  ELSE LET rule == Head(rules) IN
       IF IsSubclass(rel1.cls, rule.r1) /\ IsSubclass(rel2.cls, rule.r2)
       THEN LET rel3 == IF rule.r3 = PyInt(1) THEN rel1.cls
                        ELSE IF rule.r3 = PyInt(2) THEN rel2.cls
                        ELSE rule.r3.cls
            IN Relationship(rel3, rel1.subject_term, rel2.object_term)
       ELSE apply(Tail(rules), rel1, rel2)

\* Rules(rules).apply(rel1, rel2)
Rules_apply(rules, rel1, rel2) ==
  LET self == Rules_init(rules) IN
  IF self.exc # OK THEN Raised(self.exc)
  ELSE Returned(apply(self.val, rel1, rel2))

\* Getting an attribute of an instance of class k that the instance itself
\* does not hold, for the names that the class does not define.
getattr_undefined(k, name) ==
  IF name \notin ClassAttributes(k) THEN Raised("AttributeError")
  ELSE Returned(name)

\* Rules(rules).restrict_to_rules_relevant_for(relation): the instance is
\* constructed, then the attribute is looked up on it.  The class Rules
\* defines no attribute of that name, so nothing is called.
Rules_restrict_to_rules_relevant_for(rules, relation) ==
  LET self == Rules_init(rules) IN
  IF self.exc # OK THEN Raised(self.exc)
  ELSE Raised(getattr_undefined("Rules", "restrict_to_rules_relevant_for").exc)

\* The calls explored: the default rules and every sequence of one to
\* MaxRules rules of RulePool, applied to every pair of relationships of
\* concrete classes over RelTerms.
MaxRules == 2

RulePool ==
  {Rule(Name("regulates"), Name("inheritable"), Name("regulates")),
   Rule(Name("positively_regulates"), Name("is_a"), PyInt(1)),
   Rule(Name("any"), Name("part_of"), PyInt(2))}

RuleSequences == UNION {[1..k -> RulePool] : k \in 0..MaxRules}

ConcreteRelationships ==
  {Relationship(c, x, y) : c \in ConcreteClasses, x \in RelTerms, y \in RelTerms}

InitRules ==
  /\ ret = Pending
  /\ \E rules \in RuleSequences :
       \E rel1 \in ConcreteRelationships, rel2 \in ConcreteRelationships :
         args = [fn |-> "apply", rules |-> rules, rel1 |-> rel1, rel2 |-> rel2]

\* The calls Rules(rules).apply(rel1, rel2).
Apply ==
  /\ args.fn = "apply" /\ ret = Pending
  /\ ret' = Rules_apply(args.rules, args.rel1, args.rel2)
  /\ UNCHANGED args
  /\ UNCHANGED << nxVars, normVars, sqlVars, annVars >>

NextRules == Apply

(***************************************************************************)
(* Queries and the inference engine (Bio/GO/inference.py).                 *)
(***************************************************************************)
UNBOUND == None

NoneType == [type |-> "NoneType"]

\* Ontology.ensure_term: a GOTerm is returned as it is, anything else is
\* looked up as an id.
ensure_term(w, o, term_or_id) ==
  IF term_or_id \in Terms THEN Returned(term_or_id)
  ELSE get_term_by_id(w, o, term_or_id)

\* Query.__init__: the relation is set first, then the subject, then the
\* object.  A relation that is not a GORelationship subclass is looked up
\* with GORelationship.from_name.
Query_init(w, o, subject_term, relation, object_term) ==
  LET rel == IF relation.type = "NoneType" THEN Raised("ValueError")
             ELSE IF relation.type # "class"
             THEN GORelationship_from_name(relation)
             ELSE Returned(relation.cls)
      subj == IF subject_term = UNBOUND THEN Returned(UNBOUND)
              ELSE ensure_term(w, o, subject_term)
      obj == IF object_term = UNBOUND THEN Returned(UNBOUND)
             ELSE ensure_term(w, o, object_term)
  IN
  IF rel.exc # OK THEN Raised(rel.exc)
  ELSE IF subj.exc # OK THEN Raised(subj.exc)
  ELSE IF obj.exc # OK THEN Raised(obj.exc)
  ELSE Returned([type |-> "Query", subject_term |-> subj.val,
                 relation |-> rel.val, object_term |-> obj.val])

\* Query._set_relation on an existing query: the outcome and the query as
\* the call leaves it.
Query_set_relation(query, relation) ==
  LET rel == IF relation.type = "NoneType" THEN Raised("ValueError")
             ELSE IF relation.type # "class"
             THEN GORelationship_from_name(relation)
             ELSE Returned(relation.cls)
  IN
  IF rel.exc # OK THEN [exc |-> rel.exc, val |-> query]
  ELSE Returned([query EXCEPT !.relation = rel.val])

\* InvalidQueryError.__init__ calls super.__init__(self, reason): the
\* initialiser of the type `super`, on an object that is not a super.
InvalidQueryError_init(query, reason) == "TypeError"

\* An InferenceEngine instance; the class defines no attribute on it.
Engine == [type |-> "InferenceEngine"]

\* InferenceEngine.solve_unbound_object, declared with the one parameter
\* `query`; positional is what the call passes, the instance included.
solve_unbound_object(positional) ==
  IF Len(positional) # 1 THEN Raised("TypeError")
  ELSE Returned({})

\* InferenceEngine.solve, declared with the one parameter `query`.  The
\* name `self` in its body is not bound.
solve(positional) ==
  IF Len(positional) # 1 THEN Raised("TypeError")
  ELSE
    LET query == positional[1] IN
    IF query.type # "Query" THEN Raised("AttributeError")
    ELSE IF query.subject_term = UNBOUND /\ query.object_term = UNBOUND
    THEN Raised(InvalidQueryError_init(query, "both unbound"))
    ELSE IF query.object_term = UNBOUND THEN Raised("NameError")
    ELSE Raised("NotImplementedError")

\* engine.solve(query): a method call passes the instance first.
Engine_solve(engine, query) == solve(<< engine, query >>)

\* engine.solve(Query(ontology, subject_term, relation, object_term))
Solve(w, o, subject_term, relation, object_term) ==
  LET query == Query_init(w, o, subject_term, relation, object_term) IN
  IF query.exc # OK THEN Raised(query.exc)
  ELSE Engine_solve(Engine, query.val)

\* The stores as engine.solve(Query(ontology, subject_term, relation,
\* object_term)) leaves them: Query.__init__ assigns attributes of the query
\* only, ensure_term and get_term_by_id read _goid_dict, and neither solve
\* nor solve_unbound_object assigns to anything.
Solve_effect(w, o, subject_term, relation, object_term) == w

(***************************************************************************)
(* The relational backend GeneOntologySQL.  The database is read-only: its *)
(* tables term, term2term and term_synonym are fixed when the connection   *)
(* is made.  In term2term, term1_id is the object (the parent) and         *)
(* term2_id the subject (the child) of a relationship.                     *)
(***************************************************************************)
TermRow(id, acc, name, term_type, is_root, is_obsolete) ==
  [id |-> id, acc |-> acc, name |-> name, term_type |-> term_type,
   is_root |-> is_root, is_obsolete |-> is_obsolete]

Term2TermRow(term1_id, term2_id, relationship_type_id) ==
  [term1_id |-> term1_id, term2_id |-> term2_id,
   relationship_type_id |-> relationship_type_id]

SynonymRow(term_id, acc_synonym) ==
  [term_id |-> term_id, acc_synonym |-> acc_synonym]

HasPart == << "h", "a", "s", "_", "p", "a", "r", "t" >>

\* The characters of an accession.
AccChars(acc) ==
  CASE acc = "GO:0000001" -> GO_PREFIX \o << "0", "0", "0", "0", "0", "0", "1" >>
    [] acc = "GO:0000002" -> GO_PREFIX \o << "0", "0", "0", "0", "0", "0", "2" >>
    [] acc = "GO:0000003" -> GO_PREFIX \o << "0", "0", "0", "0", "0", "0", "3" >>
    [] acc = "GO:0000004" -> GO_PREFIX \o << "0", "0", "0", "0", "0", "0", "4" >>
    [] acc = "GO:0000005" -> GO_PREFIX \o << "0", "0", "0", "0", "0", "0", "5" >>
    [] acc = "all" -> << "a", "l", "l" >>
    [] acc = "has_part" -> HasPart
    [] OTHER -> names(acc)[1]

\* The identifiers looked up in the database.
SqlIds == TermIds \cup {"GO:0000004"}

Accs == SqlIds \cup {"GO:0000005", "all", "is_a", "part_of", "has_part"}

\* The term table: the root `all`, the relationship types is_a and part_of,
\* a relationship type the registry does not know, three GO terms, the last
\* of them obsolete, and a GO term that is flagged as a root.
TermTable ==
  {TermRow(1, "all", AccChars("all"), "universal", 1, 0),
   TermRow(2, "is_a", AccChars("is_a"), "relationship", 0, 0),
   TermRow(3, "part_of", AccChars("part_of"), "relationship", 0, 0),
   TermRow(4, "has_part", AccChars("has_part"), "relationship", 0, 0),
   TermRow(5, "GO:0000001", << >>, "biological_process", 0, 0),
   TermRow(6, "GO:0000002", << >>, "biological_process", 0, 0),
   TermRow(7, "GO:0000003", << >>, "biological_process", 0, 1),
   TermRow(8, "GO:0000005", << >>, "biological_process", 1, 0)}

\* A fixed order in which a cursor returns a set of rows.
RECURSIVE db_cursor_iterator(_)
db_cursor_iterator(rows) ==
  IF rows = {} THEN << >>
  ELSE LET row == CHOOSE r \in rows : TRUE IN
       << row >> \o db_cursor_iterator(rows \ {row})

\* acc LIKE 'GO:%'
LikeGO(acc) == StartsWith(AccChars(acc), GO_PREFIX)

\* GOTerm.__init__ on a row: the accession is validated and normalised.  A
\* term of this backend is represented by its id.
GOTerm_init(acc) ==
  LET id == validate_and_normalize_go_id(Str(AccChars(acc))) IN
  IF id.exc # OK THEN Raised(id.exc)
  ELSE Returned(CHOOSE a \in Accs : AccChars(a) = id.val.chars)

\* A dict entry that is not there.
NoDbid == 0

\* GeneOntologySQL._initialize_relid_dicts: the rows of term whose type is
\* relationship or gene_ontology and whose name the registry knows.
initialize_relid_dicts(d) ==
  LET known_names == {e[1] : e \in registry}
      rows == {row \in d.term : /\ row.term_type \in {"relationship", "gene_ontology"}
                                 /\ row.name \in known_names}
  IN [relid \in {row.id : row \in rows} |->
        from_name(Str((CHOOSE row \in rows : row.id = relid).name)).val]

\* GeneOntologySQL.clear_cache
clear_cache(d, q) ==
  [goid_dict |-> [k \in Accs |-> None],
   goid_to_dbid_dict |-> [k \in Accs |-> NoDbid],
   relid_to_class_dict |-> initialize_relid_dicts(d)]

\* The outcome of a call: the caches it leaves, what it raised, what it
\* returned.
SqlRet(q, exc, val) == [q |-> q, exc |-> exc, val |-> val]

\* GeneOntologySQL._get_dbid_from_goid
get_dbid_from_goid(d, q, goid) ==
  IF q.goid_to_dbid_dict[goid] # NoDbid
  THEN SqlRet(q, OK, q.goid_to_dbid_dict[goid])
  ELSE LET rows == {row \in d.term : row.acc = goid} IN
       IF rows = {} THEN SqlRet(q, "KeyError", NoDbid)
       ELSE LET row == CHOOSE r \in rows : TRUE IN
            SqlRet([q EXCEPT !.goid_to_dbid_dict[goid] = row.id], OK, row.id)

\* GeneOntologySQL.has_term on an id.
sql_has_term(d, q, term) ==
  IF q.goid_dict[term] # None THEN TRUE
  ELSE Cardinality({row \in d.term : row.acc = term}) > 0

\* get_term_by_id without the retry against term_synonym.
sql_get_term_by_id_primary_only(d, q, term_id) ==
  IF q.goid_dict[term_id] # None THEN SqlRet(q, OK, q.goid_dict[term_id])
  ELSE
    LET by_id == {row \in d.term : row.acc = term_id} IN
    IF by_id = {} THEN SqlRet(q, "NoSuchTermError", None)
    ELSE LET row == CHOOSE r \in by_id : TRUE
             result == GOTerm_init(row.acc)
         IN IF result.exc # OK THEN SqlRet(q, result.exc, None)
            ELSE SqlRet([q EXCEPT !.goid_dict[term_id] = result.val,
                                  !.goid_to_dbid_dict[term_id] = row.id],
                        OK, result.val)

\* GeneOntologySQL.get_term_by_id: the cache, the primary accession, then
\* the synonyms; the term found is cached under the id that was asked for.
sql_get_term_by_id(d, q, term_id) ==
  IF q.goid_dict[term_id] # None THEN SqlRet(q, OK, q.goid_dict[term_id])
  ELSE
    LET by_id == {row \in d.term : row.acc = term_id}
        by_synonym == {row \in d.term :
                         \E syn \in d.term_synonym :
                           syn.term_id = row.id /\ syn.acc_synonym = term_id}
        rows == IF by_id # {} THEN by_id ELSE by_synonym
    IN
    IF rows = {} THEN SqlRet(q, "NoSuchTermError", None)
    ELSE LET row == CHOOSE r \in rows : TRUE
             result == GOTerm_init(row.acc)
         IN IF result.exc # OK THEN SqlRet(q, result.exc, None)
            ELSE SqlRet([q EXCEPT !.goid_dict[term_id] = result.val,
                                  !.goid_to_dbid_dict[term_id] = row.id],
                        OK, result.val)

\* The second loop of get_terms_by_ids: every row found is made a term,
\* cached under its own id and put at the positions that asked for it.
RECURSIVE fill_unknown(_, _, _, _, _)
fill_unknown(rows, q, result, term_ids, unknown_idx) ==
  IF rows = << >> THEN SqlRet(q, OK, result)
  ELSE
    LET row == Head(rows)
        term == GOTerm_init(row.acc)
    IN
    IF term.exc # OK THEN SqlRet(q, term.exc, << >>)
    ELSE fill_unknown(
           Tail(rows),
           [q EXCEPT !.goid_dict[term.val] = term.val,
                     !.goid_to_dbid_dict[term.val] = row.id],
           [i \in DOMAIN result |->
              IF i \in unknown_idx /\ term_ids[i] = term.val
              THEN term.val ELSE result[i]],
           term_ids, unknown_idx)

\* GeneOntologySQL.get_terms_by_ids
get_terms_by_ids(d, q, term_ids) ==
  LET result == [i \in DOMAIN term_ids |-> q.goid_dict[term_ids[i]]]
      unknown_idx == {i \in DOMAIN term_ids : q.goid_dict[term_ids[i]] = None}
      unknown_ids == {term_ids[i] : i \in unknown_idx}
  IN
  IF unknown_ids = {} THEN SqlRet(q, OK, result)
  ELSE fill_unknown(
         db_cursor_iterator({row \in d.term : row.acc \in unknown_ids}),
         q, result, term_ids, unknown_idx)

\* A row of term2term joined with the accessions of its two terms.
Joined(d) ==
  {[id1 |-> t1.id, id2 |-> t2.id, acc1 |-> t1.acc, acc2 |-> t2.acc,
    rel |-> r.relationship_type_id,
    root1 |-> t1.is_root, root2 |-> t2.is_root] :
     << r, t1, t2 >> \in
       {x \in d.term2term \X d.term \X d.term :
          x[1].term1_id = x[2].id /\ x[1].term2_id = x[3].id}}

\* The list comprehensions of get_relationships: a relationship for every
\* row whose terms were both found; a relationship type missing from
\* _relid_to_class_dict raises KeyError.
build_relationships(q, rows, subject_terms, object_terms) ==
  LET kept == {i \in DOMAIN rows :
                 subject_terms[i] # None /\ object_terms[i] # None}
  IN
  IF \E i \in kept : rows[i].rel \notin DOMAIN q.relid_to_class_dict
  THEN SqlRet(q, "KeyError", {})
  ELSE SqlRet(q, OK,
              {Relationship(q.relid_to_class_dict[rows[i].rel],
                            subject_terms[i], object_terms[i]) : i \in kept})

\* GeneOntologySQL.get_relationships; subject_term and object_term are
\* terms or None.
sql_get_relationships(d, q, subject_term, object_term) ==
  IF subject_term # None /\ object_term # None THEN
    LET s == get_dbid_from_goid(d, q, subject_term) IN
    IF s.exc # OK THEN SqlRet(s.q, s.exc, {})
    ELSE
      LET o == get_dbid_from_goid(d, s.q, object_term) IN
      IF o.exc # OK THEN SqlRet(o.q, o.exc, {})
      ELSE
        LET rows == db_cursor_iterator(
                      {r \in d.term2term :
                         r.term1_id = o.val /\ r.term2_id = s.val})
        IN build_relationships(
             o.q, [i \in DOMAIN rows |-> [rel |-> rows[i].relationship_type_id]],
             [i \in DOMAIN rows |-> subject_term],
             [i \in DOMAIN rows |-> object_term])
  ELSE IF subject_term # None THEN
    LET s == get_dbid_from_goid(d, q, subject_term) IN
    IF s.exc # OK THEN SqlRet(s.q, s.exc, {})
    ELSE
      LET rows == db_cursor_iterator(
                    {j \in Joined(d) :
                       /\ j.id2 = s.val
                       /\ j.root1 # 1})
          object_terms == get_terms_by_ids(
                            d, s.q, [i \in DOMAIN rows |-> rows[i].acc1])
      IN
      IF object_terms.exc # OK THEN SqlRet(object_terms.q, object_terms.exc, {})
      ELSE build_relationships(object_terms.q, rows,
                               [i \in DOMAIN rows |-> subject_term],
                               object_terms.val)
  ELSE IF object_term # None THEN
    LET o == get_dbid_from_goid(d, q, object_term) IN
    IF o.exc # OK THEN SqlRet(o.q, o.exc, {})
    ELSE
      LET rows == db_cursor_iterator(
                    {j \in Joined(d) :
                       /\ j.id1 = o.val
                       /\ j.root2 # 1})
          subject_terms == get_terms_by_ids(
                             d, o.q, [i \in DOMAIN rows |-> rows[i].acc2])
      IN
      IF subject_terms.exc # OK THEN SqlRet(subject_terms.q, subject_terms.exc, {})
      ELSE build_relationships(subject_terms.q, rows, subject_terms.val,
                               [i \in DOMAIN rows |-> object_term])
  ELSE
    LET rows == db_cursor_iterator(
                  {j \in Joined(d) : LikeGO(j.acc1) /\ LikeGO(j.acc2)})
        subject_terms == get_terms_by_ids(
                           d, q, [i \in DOMAIN rows |-> rows[i].acc2])
    IN
    IF subject_terms.exc # OK THEN SqlRet(subject_terms.q, subject_terms.exc, {})
    ELSE
      LET object_terms == get_terms_by_ids(
                            d, subject_terms.q,
                            [i \in DOMAIN rows |-> rows[i].acc1])
      IN
      IF object_terms.exc # OK THEN SqlRet(object_terms.q, object_terms.exc, {})
      ELSE build_relationships(object_terms.q, rows, subject_terms.val,
                               object_terms.val)

\* GeneOntologySQL.orphaned_terms: the GO rows that are the term2 of no
\* row of term2term, then those of them that are the term1 of none.
sql_orphaned_terms(d, q) ==
  LET ids == {row.id : row \in
                {t \in d.term : /\ LikeGO(t.acc)
                                /\ ~\E r \in d.term2term : r.term2_id = t.id}}
  IN
  IF ids # {} THEN
    LET orphaned == db_cursor_iterator(
                      {t \in d.term : /\ t.id \in ids
                                      /\ ~\E r \in d.term2term : r.term1_id = t.id})
    IN get_terms_by_ids(d, q, [i \in DOMAIN orphaned |-> orphaned[i].acc])
  ELSE SqlRet(q, OK, << >>)

\* The generator of GeneOntologySQL.terms run to its end: the terms it
\* yielded and the exception that ended it, if any.  For a row whose
\* accession is cached the generator evaluates the name `term`, which is
\* bound nowhere.
RECURSIVE yield_terms(_, _, _)
yield_terms(rows, q, yielded) ==
  IF rows = << >> THEN SqlRet(q, OK, yielded)
  ELSE
    LET row == Head(rows) IN
    IF q.goid_dict[row.acc] # None THEN SqlRet(q, "NameError", yielded)
    ELSE LET term == GOTerm_init(row.acc) IN
         IF term.exc # OK THEN SqlRet(q, term.exc, yielded)
         ELSE yield_terms(Tail(rows), q, Append(yielded, term.val))

\* GeneOntologySQL.terms
sql_terms(d, q) ==
  yield_terms(
    db_cursor_iterator({t \in d.term : LikeGO(t.acc) /\ t.is_obsolete = 0}),
    q, << >>)

\* The databases: the term table, at most MaxSqlEdges rows of term2term
\* (is_a, part_of and has_part rows between the GO terms and the roots) and
\* the synonyms GO:0000004 of the first term and GO:0000003, which is also a
\* primary accession, of the second.
MaxSqlEdges == 2

Term2TermRows ==
  {Term2TermRow(6, 5, 2), Term2TermRow(6, 5, 4), Term2TermRow(7, 6, 3),
   Term2TermRow(1, 5, 2), Term2TermRow(8, 5, 2)}

SynonymRows == {SynonymRow(5, "GO:0000004"), SynonymRow(6, "GO:0000003")}

Databases ==
  {[term |-> TermTable, term2term |-> e, term_synonym |-> y] :
     e \in {x \in SUBSET Term2TermRows : Cardinality(x) <= MaxSqlEdges},
     y \in SUBSET SynonymRows}

NoDatabase == [term |-> {}, term2term |-> {}, term_synonym |-> {}]

\* The sequences of ids handed to get_terms_by_ids.
MaxIds == 2

IdSeqs == UNION {[1..n -> SqlIds] : n \in 0..MaxIds}

\* GeneOntologySQL.__init__ on a connection to one of the databases.
InitSQL ==
  /\ db \in Databases
  /\ sql = clear_cache(db, None)
  /\ args = NoCall
  /\ ret = NoCall

InitSQLIdle ==
  /\ db = NoDatabase
  /\ sql = clear_cache(NoDatabase, None)

\* A call leaves its caches in sql; args and ret record the call and its
\* outcome (of the calls with several arguments, only the exception).
SqlCall(fn, key, r, val) ==
  /\ sql' = r.q
  /\ args' = [fn |-> fn, key |-> key]
  /\ ret' = [exc |-> r.exc, val |-> val]
  /\ UNCHANGED << db, nxVars, normVars, annVars >>

GetTermById ==
  \E term_id \in SqlIds :
    LET r == sql_get_term_by_id(db, sql, term_id) IN
    SqlCall("get_term_by_id", term_id, r, r.val)

GetTermsByIds ==
  \E term_ids \in IdSeqs :
    SqlCall("get_terms_by_ids", None, get_terms_by_ids(db, sql, term_ids), None)

GetRelationships ==
  \E subject_term \in SqlIds \cup {None}, object_term \in SqlIds \cup {None} :
    SqlCall("get_relationships", None,
            sql_get_relationships(db, sql, subject_term, object_term), None)

HasTerm ==
  \E term \in SqlIds :
    SqlCall("has_term", term, SqlRet(sql, OK, None), sql_has_term(db, sql, term))

OrphanedTerms ==
  LET r == sql_orphaned_terms(db, sql) IN
  SqlCall("orphaned_terms", None, r, r.val)

TermsSQL ==
  LET r == sql_terms(db, sql) IN
  SqlCall("terms", None, r, r.val)

ClearCache ==
  SqlCall("clear_cache", None, SqlRet(clear_cache(db, sql), OK, None), None)

NextSQL ==
  \/ GetTermById
  \/ GetTermsByIds
  \/ GetRelationships
  \/ HasTerm
  \/ OrphanedTerms
  \/ TermsSQL
  \/ ClearCache

(***************************************************************************)
(* Bio.GO.utils.rewrite_db_query_markers, which _initialize_queries applies *)
(* to every query of the relational backend.  Queries are written with the *)
(* marker %s; the function rewrites them for the parameter style of the    *)
(* database driver.  A query is a sequence of characters.                  *)
(***************************************************************************)
DecimalDigits == << "0", "1", "2", "3", "4", "5", "6", "7", "8", "9" >>

\* str(k) for a natural number k
RECURSIVE str(_)
str(k) ==
  IF k < 10 THEN << DecimalDigits[k + 1] >>
  ELSE str(k \div 10) \o << DecimalDigits[(k % 10) + 1] >>

\* The scan that leaves every marker numbered 1.
RECURSIVE rewrite_from_unnumbered(_, _, _, _)
rewrite_from_unnumbered(query, paramstyle, i, k) ==
  IF i > Len(query) THEN << >>
  ELSE IF i < Len(query) /\ query[i] = "%" /\ query[i + 1] = "s"
  THEN (IF paramstyle = "qmark" THEN << "?" >> ELSE << ":" >> \o str(k))
         \o rewrite_from_unnumbered(query, paramstyle, i + 2, k)
  ELSE << query[i] >> \o rewrite_from_unnumbered(query, paramstyle, i + 1, k)

\* The scan of the query from position i on, k being the number of the next
\* marker.
RECURSIVE rewrite_from(_, _, _, _)
rewrite_from(query, paramstyle, i, k) ==
  IF i > Len(query) THEN << >>
  ELSE IF i < Len(query) /\ query[i] = "%" /\ query[i + 1] = "s"
  THEN (IF paramstyle = "qmark" THEN << "?" >> ELSE << ":" >> \o str(k))
         \o rewrite_from(query, paramstyle, i + 2, k + 1)
  ELSE << query[i] >> \o rewrite_from(query, paramstyle, i + 1, k)

\* The rewriting that numbers every marker 1.
rewrite_db_query_markers_unnumbered(query, paramstyle) ==
  IF paramstyle = "format" THEN query
  ELSE rewrite_from_unnumbered(query, paramstyle, 1, 1)

\* rewrite_db_query_markers(query, paramstyle)
rewrite_db_query_markers(query, paramstyle) ==
  IF paramstyle = "format" THEN query
  ELSE rewrite_from(query, paramstyle, 1, 1)

\* The queries rewritten: every sequence of at most MaxQueryLen characters,
\* among them the two of the marker and those of the other styles.
MaxQueryLen == 6

QueryChars == {"%", "s", "?", ":", "1"}

Queries == UNION {[1..n -> QueryChars] : n \in 0..MaxQueryLen}

ParamStyles == {"qmark", "numeric", "format"}

InitRewrite ==
  /\ ret = Pending
  /\ \E query \in Queries, paramstyle \in ParamStyles :
       args = [fn |-> "rewrite_db_query_markers", query |-> query,
               paramstyle |-> paramstyle]

\* The call rewrite_db_query_markers(query, paramstyle)
Rewrite ==
  /\ args.fn = "rewrite_db_query_markers" /\ ret = Pending
  /\ ret' = Returned(rewrite_db_query_markers(args.query, args.paramstyle))
  /\ UNCHANGED args
  /\ UNCHANGED << nxVars, normVars, sqlVars, annVars >>

NextRewrite == Rewrite

(***************************************************************************)
(* Bio.GO.annotation.AnnotationCollection: two defaultdict(set), from term *)
(* ids to gene ids and from gene ids to term ids, and a dict of gene       *)
(* aliases.  A dictionary is a function whose domain is its set of keys.   *)
(***************************************************************************)

GeneIds == {"g1", "g2"}

GeneAliases == {"a1", "a2"}

AnnTermIds == {"GO:0000001", "GO:0000002"}

MaxSynonyms == 1

\* The Annotation objects handed to add_annotation: the four attributes it
\* reads.
Annotations ==
  [db_object_id : GeneIds, go_id : AnnTermIds, db_object_symbol : GeneAliases,
   db_object_synonyms : UNION {[1..n -> GeneAliases] : n \in 0..MaxSynonyms}]

EmptyDict == [k \in {} |-> {}]

\* defaultdict(set).__getitem__: a missing key is inserted with set() first.
defaultdict_getitem(d, key) ==
  IF key \in DOMAIN d THEN d ELSE [k \in DOMAIN d \cup {key} |->
                                     IF k = key THEN {} ELSE d[k]]

\* del d[key]
dict_delitem(d, key) == [k \in DOMAIN d \ {key} |-> d[k]]

\* d[key] = value
dict_setitem(d, key, value) ==
  [k \in DOMAIN d \cup {key} |-> IF k = key THEN value ELSE d[k]]

\* The outcome of a call: the collection it leaves, what it raised, what it
\* returned.
AnnRet(c, exc, val) == [c |-> c, exc |-> exc, val |-> val]

\* AnnotationCollection.__init__ without annotations
AnnotationCollection_init ==
  [term_ids_to_gene_ids |-> EmptyDict,
   gene_ids_to_term_ids |-> EmptyDict,
   gene_aliases |-> EmptyDict]

\* AnnotationCollection.add
add(c, gene_id, term_id) ==
  LET t2g == defaultdict_getitem(c.term_ids_to_gene_ids, term_id)
      g2t == defaultdict_getitem(c.gene_ids_to_term_ids, gene_id)
  IN AnnRet([c EXCEPT !.term_ids_to_gene_ids =
                         dict_setitem(t2g, term_id, t2g[term_id] \cup {gene_id}),
                      !.gene_ids_to_term_ids =
                         dict_setitem(g2t, gene_id, g2t[gene_id] \cup {term_id})],
            OK, None)

\* AnnotationCollection.add_gene_alias
add_gene_alias(c, gene_id, alias) ==
  AnnRet([c EXCEPT !.gene_aliases = dict_setitem(@, alias, gene_id)], OK, None)

RECURSIVE add_gene_aliases(_, _, _)
\* The loop of add_annotation over db_object_synonyms.
add_gene_aliases(c, gene_id, synonyms) ==
  IF synonyms = << >> THEN c
  ELSE add_gene_aliases(add_gene_alias(c, gene_id, Head(synonyms)).c,
                        gene_id, Tail(synonyms))

\* AnnotationCollection.add_annotation
add_annotation(c, annotation, add_aliases) ==
  LET dbid == annotation.db_object_id
      added == add(c, dbid, annotation.go_id).c
  IN IF add_aliases
     THEN AnnRet(add_gene_aliases(
                   add_gene_alias(added, dbid, annotation.db_object_symbol).c,
                   dbid, annotation.db_object_synonyms), OK, None)
     ELSE AnnRet(added, OK, None)

\* AnnotationCollection.get_genes_for_term
get_genes_for_term(c, term_id) ==
  LET t2g == defaultdict_getitem(c.term_ids_to_gene_ids, term_id) IN
  AnnRet([c EXCEPT !.term_ids_to_gene_ids = t2g], OK, t2g[term_id])

\* AnnotationCollection.get_number_of_genes
get_number_of_genes(c) == Cardinality(DOMAIN c.gene_ids_to_term_ids)

\* AnnotationCollection.get_number_of_terms
get_number_of_terms(c) == Cardinality(DOMAIN c.term_ids_to_gene_ids)

\* AnnotationCollection.get_terms_for_gene: the gene id itself, then the
\* gene it is an alias of; a KeyError of the alias lookup gives set().
get_terms_for_gene(c, gene_id) ==
  IF gene_id \in DOMAIN c.gene_ids_to_term_ids
  THEN AnnRet(c, OK, c.gene_ids_to_term_ids[gene_id])
  ELSE IF gene_id \notin DOMAIN c.gene_aliases THEN AnnRet(c, OK, {})
  ELSE LET g2t == defaultdict_getitem(c.gene_ids_to_term_ids,
                                      c.gene_aliases[gene_id])
       IN AnnRet([c EXCEPT !.gene_ids_to_term_ids = g2t], OK,
                 g2t[c.gene_aliases[gene_id]])

\* AnnotationCollection.has_genes
has_genes(c, term_id) ==
  IF term_id \in DOMAIN c.term_ids_to_gene_ids
  THEN AnnRet(c, OK, c.term_ids_to_gene_ids[term_id] # {})
  ELSE AnnRet(c, OK, FALSE)

\* AnnotationCollection.has_terms
has_terms(c, gene_id) ==
  IF gene_id \in DOMAIN c.gene_ids_to_term_ids
  THEN AnnRet(c, OK, c.gene_ids_to_term_ids[gene_id] # {})
  ELSE IF gene_id \notin DOMAIN c.gene_aliases THEN AnnRet(c, OK, FALSE)
  ELSE LET g2t == defaultdict_getitem(c.gene_ids_to_term_ids,
                                      c.gene_aliases[gene_id])
       IN AnnRet([c EXCEPT !.gene_ids_to_term_ids = g2t], OK,
                 g2t[c.gene_aliases[gene_id]] # {})

\* s = d[key]; s.remove(item); if not s: del d[key].  set.remove raises
\* KeyError for a missing item, after the defaultdict has inserted the key.
remove_from(d, key, item) ==
  LET touched == defaultdict_getitem(d, key) IN
  IF item \notin touched[key] THEN [d |-> touched, exc |-> "KeyError"]
  ELSE IF touched[key] = {item} THEN [d |-> dict_delitem(touched, key), exc |-> OK]
  ELSE [d |-> dict_setitem(touched, key, touched[key] \ {item}), exc |-> OK]

\* AnnotationCollection.remove
remove(c, gene_id, term_id) ==
  LET terms == remove_from(c.term_ids_to_gene_ids, term_id, gene_id)
      c1 == [c EXCEPT !.term_ids_to_gene_ids = terms.d]
  IN IF terms.exc # OK THEN AnnRet(c1, terms.exc, None)
     ELSE LET genes == remove_from(c.gene_ids_to_term_ids, gene_id, term_id) IN
          AnnRet([c1 EXCEPT !.gene_ids_to_term_ids = genes.d], genes.exc, None)

\* The ids a gene lookup is made with: gene ids and aliases.
GeneKeys == GeneIds \cup GeneAliases

InitAnn == collection = AnnotationCollection_init

\* A call leaves its collection in collection; args and ret record the call
\* and its outcome.
AnnCall(fn, key, r) ==
  /\ collection' = r.c
  /\ args' = [fn |-> fn, key |-> key]
  /\ ret' = [exc |-> r.exc, val |-> r.val]
  /\ UNCHANGED << nxVars, normVars, sqlVars >>

Add ==
  \E gene_id \in GeneIds, term_id \in AnnTermIds :
    AnnCall("add", << gene_id, term_id >>, add(collection, gene_id, term_id))

AddGeneAlias ==
  \E gene_id \in GeneIds, alias \in GeneAliases :
    AnnCall("add_gene_alias", << gene_id, alias >>,
            add_gene_alias(collection, gene_id, alias))

AddAnnotation ==
  \E annotation \in Annotations, add_aliases \in BOOLEAN :
    AnnCall("add_annotation", << annotation, add_aliases >>,
            add_annotation(collection, annotation, add_aliases))

Remove ==
  \E gene_id \in GeneIds, term_id \in AnnTermIds :
    AnnCall("remove", << gene_id, term_id >>,
            remove(collection, gene_id, term_id))

GetGenesForTerm ==
  \E term_id \in AnnTermIds :
    AnnCall("get_genes_for_term", term_id,
            get_genes_for_term(collection, term_id))

GetTermsForGene ==
  \E gene_id \in GeneKeys :
    AnnCall("get_terms_for_gene", gene_id,
            get_terms_for_gene(collection, gene_id))

HasGenes ==
  \E term_id \in AnnTermIds :
    AnnCall("has_genes", term_id, has_genes(collection, term_id))

HasTerms ==
  \E gene_id \in GeneKeys :
    AnnCall("has_terms", gene_id, has_terms(collection, gene_id))

GetNumberOfGenes ==
  AnnCall("get_number_of_genes", None,
          AnnRet(collection, OK, get_number_of_genes(collection)))

GetNumberOfTerms ==
  AnnCall("get_number_of_terms", None,
          AnnRet(collection, OK, get_number_of_terms(collection)))

NextAnn ==
  \/ Add
  \/ AddGeneAlias
  \/ AddAnnotation
  \/ Remove
  \/ GetGenesForTerm
  \/ GetTermsForGene
  \/ HasGenes
  \/ HasTerms
  \/ GetNumberOfGenes
  \/ GetNumberOfTerms

(***************************************************************************)
(* The specifications: Spec is the in-memory ontology under every call     *)
(* sequence; SpecNorm is one call of the identifier normalisation on each  *)
(* input of NormInputs.                                                    *)
(***************************************************************************)
Init == InitNX /\ InitNormIdle /\ InitCallIdle /\ InitSQLIdle /\ InitAnn

Next == NextNX

Spec == Init /\ [][Next]_vars

InitSpecNorm == InitNorm /\ InitNXIdle /\ InitCallIdle /\ InitSQLIdle /\ InitAnn

SpecNorm == InitSpecNorm /\ [][NextNorm]_vars

InitSpecRel == InitRel /\ InitNXIdle /\ InitNormIdle /\ InitSQLIdle /\ InitAnn

SpecRel == InitSpecRel /\ [][NextRel]_vars

InitSpecRules == InitRules /\ InitNXIdle /\ InitNormIdle /\ InitSQLIdle /\ InitAnn

SpecRules == InitSpecRules /\ [][NextRules]_vars

InitSpecSQL == InitSQL /\ InitNXIdle /\ InitNormIdle /\ InitAnn

SpecSQL == InitSpecSQL /\ [][NextSQL]_vars

InitSpecRewrite == InitRewrite /\ InitNXIdle /\ InitNormIdle /\ InitSQLIdle /\ InitAnn

SpecRewrite == InitSpecRewrite /\ [][NextRewrite]_vars

InitSpecAnn == InitAnn /\ InitNXIdle /\ InitNormIdle /\ InitCallIdle /\ InitSQLIdle

SpecAnn == InitSpecAnn /\ [][NextAnn]_vars


(***************************************************************************)
(* The in-memory ontology: what the store operations guarantee.            *)
(***************************************************************************)

\* A term object is attached to o when it was added and not removed since.
Attached(o, t) == t \in members[o]

\* Some attached term has the id of x (x in ontology, by GOTerm equality).
IdAttached(o, x) == \E m \in members[o] : TermEq(m, x)

\* The stored edge between two ids, or None.
StoredClass(o, s, d) == dag_edges[o][<< TermId(s), TermId(d) >>]

\* C1: every attached term is what get_term_by_id returns for its id and
\* for each of its aliases.
C1_AttachedTermsResolve ==
  \A t \in members[MainOntology] :
    \A id \in {TermId(t)} \cup AliasSet(t) :
      LET r == get_term_by_id(World, MainOntology, id) IN
      r.exc = OK /\ TermEq(r.val, t)

\* C2: has_term never raises; it is true exactly for the ids of attached
\* terms.
C2_HasTermConsistent ==
  \A x \in Terms :
    has_term(World, MainOntology, x) =
      (IF IdAttached(MainOntology, x) THEN "True" ELSE "False")

\* C3: both endpoints of every relationship get_relationships() returns are
\* attached terms of the ontology.
C3_EndpointsAttached ==
  LET r == get_relationships(World, MainOntology, None, None) IN
  /\ r.exc = OK
  /\ \A rel \in r.val :
       /\ Attached(MainOntology, rel.subject_term)
       /\ Attached(MainOntology, rel.object_term)

\* C4: add_term(t) fails exactly when a term with t's primary id is attached
\* or t is owned by another ontology; otherwise it sets the owner and
\* indexes the id and the aliases of t.
C4_AddTermFailsExactlyWhen ==
  \A t \in Terms :
    LET r == add_term(World, MainOntology, t)
        must_fail ==
          \/ IdAttached(MainOntology, t)
          \/ ontology[t] \notin {None, MainOntology}
    IN
    /\ (r.exc # OK) <=> must_fail
    /\ r.exc = OK =>
         /\ r.w.ontology[t] = MainOntology
         /\ \A id \in {TermId(t)} \cup AliasSet(t) :
              r.w.goid_dict[MainOntology][id] = t

\* C5: remove_term of an attached term succeeds, makes has_term false and
\* clears the owner; remove_term of a term that is not attached raises
\* NoSuchTermError.
C5_RemoveTerm ==
  \A t \in Terms :
    LET r == remove_term(World, MainOntology, t) IN
    /\ Attached(MainOntology, t) =>
         /\ r.exc = OK
         /\ has_term(r.w, MainOntology, t) = "False"
         /\ r.w.ontology[t] = None
    /\ ~IdAttached(MainOntology, t) => r.exc = "NoSuchTermError"

\* C7: remove_relationship(S, O, T) raises NoSuchRelationshipError whenever
\* no stored edge from S to O has class T, and removes an edge only of
\* class T.
C7_RemoveRelationshipMatchesType ==
  \A s \in Terms, d \in Terms, T \in ConcreteClasses :
    LET r == remove_relationship(World, MainOntology, s, d, T) IN
    /\ StoredClass(MainOntology, s, d) # T =>
         r.exc = "NoSuchRelationshipError" /\ r.w = World
    /\ StoredClass(MainOntology, s, d) = T =>
         r.exc = OK /\ r.w.dag_edges[MainOntology][<< TermId(s), TermId(d) >>] = None

\* The stored edge set, as relationships between the attached terms.
StoredRelationships(o) ==
  {Relationship(dag_edges[o][p], ms, md) :
     << p, ms, md >> \in
       {x \in Pairs \X members[o] \X members[o] :
          /\ dag_edges[o][x[1]] # None
          /\ TermId(x[2]) = x[1][1]
          /\ TermId(x[3]) = x[1][2]}}

\* C8: has_relationship(S, O, T) is true iff some stored relationship from
\* S to O is of class T or of a subclass of T; with T = any, iff a
\* relationship from S to O is stored at all.
C8_HasRelationship ==
  \A s \in Terms, d \in Terms, T \in RelClasses :
    has_relationship(World, MainOntology, s, d, T) <=>
      \E r \in StoredRelationships(MainOntology) :
        /\ TermEq(r.subject_term, s)
        /\ TermEq(r.object_term, d)
        /\ IsSubclass(r.cls, T)

\* A positively_regulates edge answers for regulates and for any, not for
\* is_a, and not for the reversed pair.
C8_Witness ==
  /\ last.op = "add_relationship" /\ last.exc = OK
  /\ \E s \in Terms, d \in Terms :
       /\ StoredClass(MainOntology, s, d) = "positively_regulates"
       /\ StoredClass(MainOntology, d, s) = None
       /\ has_relationship(World, MainOntology, s, d, "regulates")
       /\ has_relationship(World, MainOntology, s, d, "any")
       /\ ~has_relationship(World, MainOntology, s, d, "is_a")
       /\ ~has_relationship(World, MainOntology, d, s, "any")


\* C6: get_relationships returns all stored edges with no endpoint given,
\* those with subject S, those with object O, or those from S to O.
C6_GetRelationshipsModes ==
  \A s \in Terms \cup {None}, d \in Terms \cup {None} :
    get_relationships(World, MainOntology, s, d) =
      [exc |-> OK,
       val |-> {r \in StoredRelationships(MainOntology) :
                  /\ s # None => TermEq(r.subject_term, s)
                  /\ d # None => TermEq(r.object_term, d)}]

\* The attached terms that no stored relationship touches.
Untouched(o) ==
  {m \in members[o] :
     \A p \in Pairs :
       dag_edges[o][p] # None => (p[1] # TermId(m) /\ p[2] # TermId(m))}

\* C9: orphaned_terms yields exactly the attached terms that are neither
\* subject nor object of a stored relationship, each once.
C9_OrphanedTerms ==
  /\ {y[2] : y \in orphaned_terms(World, MainOntology)} = Untouched(MainOntology)
  /\ Cardinality(orphaned_terms(World, MainOntology)) =
       Cardinality(Untouched(MainOntology))

(***************************************************************************)
(* Identifier normalisation.                                               *)
(***************************************************************************)

\* A string of exactly NUM_GO_ID_DIGITS decimal digits.
SevenDigits(s) ==
  Len(s) = NUM_GO_ID_DIGITS /\ \A i \in 1..Len(s) : s[i] \in DigitChars

\* C10: for every string d of exactly 7 digits, normalising d and
\* normalising "GO:" + d both succeed and both return "GO:" + d.
C10_AcceptsBothForms ==
  \A d \in [1..NUM_GO_ID_DIGITS -> BodyChars \cap DigitChars] :
    /\ (normalized # Pending /\ go_id = Str(d)) =>
         normalized = Returned(Str(GO_PREFIX \o d))
    /\ (normalized # Pending /\ go_id = Str(GO_PREFIX \o d)) =>
         normalized = Returned(Str(GO_PREFIX \o d))

\* A string of seven digits, optionally preceded by "GO:".
ValidForm(x) ==
  /\ x.type = "str"
  /\ \/ SevenDigits(x.chars)
     \/ /\ StartsWith(x.chars, GO_PREFIX)
        /\ SevenDigits(SubSeq(x.chars, 4, Len(x.chars)))

\* The canonical form: "GO:" followed by seven digits.
Canonical(x) ==
  /\ x.type = "str"
  /\ StartsWith(x.chars, GO_PREFIX)
  /\ SevenDigits(SubSeq(x.chars, 4, Len(x.chars)))

\* C11: normalising fails with ValueError for every input that is not a
\* string of 7 digits optionally preceded by "GO:", and every value it
\* returns has the canonical form "GO:" + 7 digits.
C11_RejectsEverythingElse ==
  normalized # Pending =>
    /\ ~ValidForm(go_id) => normalized = Raised("ValueError")
    /\ normalized.exc = OK => Canonical(normalized.val)

\* C12: whenever normalising x succeeds, normalising the result succeeds
\* and returns the same value.
C12_Idempotent ==
  normalized.exc = OK =>
    validate_and_normalize_go_id(normalized.val) = normalized

\* An accepted identifier was normalised and normalising it again gives it
\* back.
C12_Witness ==
  /\ normalized.exc = OK
  /\ Canonical(go_id)
  /\ validate_and_normalize_go_id(normalized.val) = Returned(go_id)

(***************************************************************************)
(* Relationships and their names.                                          *)
(***************************************************************************)

\* The fixed order of the relationship types: (sub, super) pairs.
TypeOrder ==
  {<< c, c >> : c \in RelClasses} \cup {<< c, "any" >> : c \in RelClasses}
  \cup {<< "is_a", "inheritable" >>, << "part_of", "inheritable" >>,
        << "positively_regulates", "regulates" >>,
        << "negatively_regulates", "regulates" >>}

\* Same subject and same object; terms are compared by id.
SameEndpoints(a, b) ==
  /\ TermId(a.subject_term) = TermId(b.subject_term)
  /\ TermId(a.object_term) = TermId(b.object_term)

Canon(s) == [i \in 1..Len(s) |-> IF s[i] = " " THEN "_" ELSE LowerChar(s[i])]

\* C17: looking a name up ignores letter case and treats space and
\* underscore alike: every such spelling of a registered name resolves to
\* that name's class, the five concrete names to classes other than `any`,
\* and an unregistered name fails with NoSuchRelationshipError.
C17_FromName ==
  (ret # Pending /\ args.fn = "from_name" /\ args.name.type = "str") =>
    /\ \A c \in RelClasses :
         Canon(args.name.chars) \in NamesOf(c) =>
           /\ ret = Returned(c)
           /\ c \in ConcreteClasses => ret.val # "any"
    /\ (\A c \in RelClasses : Canon(args.name.chars) \notin NamesOf(c)) =>
         ret = Raised("NoSuchRelationshipError")

\* "Is A" was looked up and resolved to is_a.
C17_Witness ==
  /\ args.fn = "from_name"
  /\ args.name = Str(<< "I", "s", " ", "A" >>)
  /\ ret = Returned("is_a")

(***************************************************************************)
(* Inference rules.                                                        *)
(***************************************************************************)

RegulatesFamily == {"regulates", "positively_regulates", "negatively_regulates"}

\* The composition table of the default rules; None where nothing is
\* inferred.
DefaultTable(c1, c2) ==
  IF c1 = "is_a" THEN c2
  ELSE IF c1 \in RegulatesFamily /\ c2 = "is_a" THEN c1
  ELSE IF c1 \in RegulatesFamily /\ c2 = "part_of" THEN "regulates"
  ELSE IF c1 = "part_of" /\ c2 \in {"is_a", "part_of"} THEN "part_of"
  ELSE None

\* rel1's object is rel2's subject.
Chained(rel1, rel2) == TermId(rel1.object_term) = TermId(rel2.subject_term)

\* C13: under the default rules, for chained relationships of concrete
\* types, apply yields the type given by the composition table between
\* rel1's subject and rel2's object, and nothing where the table has no
\* entry.
C13_DefaultRules ==
  (ret # Pending /\ args.fn = "apply" /\ args.rules = << >>
     /\ Chained(args.rel1, args.rel2)) =>
    /\ ret.exc = OK
    /\ ret.val =
         IF DefaultTable(args.rel1.cls, args.rel2.cls) = None THEN NoInference
         ELSE Relationship(DefaultTable(args.rel1.cls, args.rel2.cls),
                           args.rel1.subject_term, args.rel2.object_term)

\* The class registered under a name.
ClassNamed(n) == CHOOSE c \in RelClasses : Canon(n.chars) \in NamesOf(c)

\* The rules of a sequence that match a pair of relationships.
Matching(rules, rel1, rel2) ==
  {i \in 1..Len(rules) :
     /\ << rel1.cls, ClassNamed(rules[i].r1) >> \in TypeOrder
     /\ << rel2.cls, ClassNamed(rules[i].r2) >> \in TypeOrder}

\* The type the rule resolves to: rel1's or rel2's own type for the
\* targets 1 and 2, the named type otherwise.
Resolved(rule, rel1, rel2) ==
  IF rule.r3.type = "int"
  THEN (IF rule.r3.n = 1 THEN rel1.cls ELSE rel2.cls)
  ELSE ClassNamed(rule.r3)

\* C14: for a caller-supplied rule sequence, apply on chained
\* relationships returns the result of the lowest-index matching rule.
C14_FirstMatchWins ==
  (ret # Pending /\ args.fn = "apply" /\ args.rules # << >>
     /\ Chained(args.rel1, args.rel2)
     /\ Matching(args.rules, args.rel1, args.rel2) # {}) =>
    LET M == Matching(args.rules, args.rel1, args.rel2)
        i == CHOOSE j \in M : \A k \in M : j <= k
    IN
    /\ ret.exc = OK
    /\ ret.val = Relationship(Resolved(args.rules[i], args.rel1, args.rel2),
                              args.rel1.subject_term, args.rel2.object_term)

\* C15: apply never raises; it returns none when the relationships do not
\* chain or no rule matches, and a relationship it returns goes from
\* rel1's subject to rel2's object.
C15_ApplyNoneOrJoined ==
  (ret # Pending /\ args.fn = "apply") =>
    /\ ret.exc = OK
    /\ (\/ ~Chained(args.rel1, args.rel2)
        \/ Matching(IF args.rules = << >> THEN default_rules ELSE args.rules,
                    args.rel1, args.rel2) = {}) =>
         ret.val = NoInference
    /\ ret.val # NoInference =>
         /\ ret.val.subject_term = args.rel1.subject_term
         /\ ret.val.object_term = args.rel2.object_term

(***************************************************************************)
(* The inference engine.                                                   *)
(***************************************************************************)

Fact(cls, s, d) == [cls |-> cls, subject |-> s, object |-> d]

\* The stored edges of o as facts between ids.
StoredFacts(o) ==
  {Fact(dag_edges[o][p], p[1], p[2]) : p \in {q \in Pairs : dag_edges[o][q] # None}}

\* Everything derivable from a set of facts by repeated composition under
\* the default rules.
RECURSIVE Derivable(_)
Derivable(F) ==
  LET N == F \cup
        {Fact(DefaultTable(f.cls, g.cls), f.subject, g.object) :
           << f, g >> \in {x \in F \X F :
                            /\ x[1].object = x[2].subject
                            /\ DefaultTable(x[1].cls, x[2].cls) # None}}
  IN IF N = F THEN F ELSE Derivable(N)

\* The facts that answer a query for relation R.
Answers(o, R) ==
  {f \in Derivable(StoredFacts(o)) : << f.cls, R >> \in TypeOrder}

\* The endpoints of a returned relationship, as a fact.
AsFact(rel) == Fact(rel.cls, TermId(rel.subject_term), TermId(rel.object_term))

AttachedTerms == members[MainOntology]

\* C18: solving (S, R, unbound) returns exactly the relationships from S
\* that imply R and are stored or derivable from the stored edges.
C18_SolveUnboundObject ==
  \A S \in AttachedTerms, R \in ConcreteClasses :
    LET res == Solve(World, MainOntology, S, Class(R), UNBOUND) IN
    /\ res.exc = OK
    /\ {AsFact(rel) : rel \in res.val} =
         {f \in Answers(MainOntology, R) : f.subject = TermId(S)}

\* C19: the three query forms agree: A R B is among the answers with the
\* object unbound iff it is among the answers with the subject unbound iff
\* the fully bound query answers true.
C19_QueryFormsAgree ==
  \A A \in AttachedTerms, B \in AttachedTerms, R \in ConcreteClasses :
    LET fwd == Solve(World, MainOntology, A, Class(R), UNBOUND)
        bwd == Solve(World, MainOntology, UNBOUND, Class(R), B)
        both == Solve(World, MainOntology, A, Class(R), B)
        InFwd == \E rel \in fwd.val :
                   /\ << rel.cls, R >> \in TypeOrder
                   /\ TermEq(rel.subject_term, A) /\ TermEq(rel.object_term, B)
        InBwd == \E rel \in bwd.val :
                   /\ << rel.cls, R >> \in TypeOrder
                   /\ TermEq(rel.subject_term, A) /\ TermEq(rel.object_term, B)
    IN
    /\ fwd.exc = OK /\ bwd.exc = OK /\ both.exc = OK
    /\ InFwd <=> InBwd
    /\ InFwd <=> (both.val = TRUE)

\* C20: solve ends with a result for every query with a relation and at
\* least one bound endpoint, whatever cycles the stored relationships form.
C20_SolveTerminates ==
  \A S \in AttachedTerms \cup {UNBOUND}, D \in AttachedTerms \cup {UNBOUND},
     R \in RelClasses :
    (S # UNBOUND \/ D # UNBOUND) =>
      Solve(World, MainOntology, S, Class(R), D).exc = OK


(***************************************************************************)
(* The relational backend.                                                 *)
(***************************************************************************)

\* The GO terms of a database: the rows whose accession has the GO form.
GoRows(d) == {row \in d.term : LikeGO(row.acc)}

\* The term whose id is x, or None when the database has none.
TermOfId(d, x) == IF \E row \in GoRows(d) : row.acc = x THEN x ELSE None

\* C25: get_terms_by_ids(ids) never fails and returns len(ids) entries, entry
\* i being the term whose id is ids[i], or None when the database has no
\* such term, at every position where an id occurs.
C25_PartialSuccess ==
  \A term_ids \in IdSeqs :
    LET r == get_terms_by_ids(db, sql, term_ids) IN
    /\ r.exc = OK
    /\ Len(r.val) = Len(term_ids)
    /\ \A i \in DOMAIN term_ids : r.val[i] = TermOfId(db, term_ids[i])

\* The rows that have x as a synonym.
SynonymOwners(d, x) ==
  {row \in d.term : \E syn \in d.term_synonym :
                      syn.term_id = row.id /\ syn.acc_synonym = x}

C27_TermsComplete ==
  LET r == sql_terms(db, sql) IN
  /\ r.exc = OK
  /\ {r.val[i] : i \in DOMAIN r.val}
       = {row.acc : row \in {t \in GoRows(db) : t.is_obsolete = 0}}
  /\ \A i, j \in DOMAIN r.val : r.val[i] = r.val[j] => i = j

\* The relationships of known type that the rows of term2term between GO
\* terms stand for, restricted to the endpoints that are bound.
KnownRelationships(d, q, subject_term, object_term) ==
  {Relationship(q.relid_to_class_dict[j.rel], j.acc2, j.acc1) :
     j \in {x \in Joined(d) :
              /\ LikeGO(x.acc1) /\ LikeGO(x.acc2)
              /\ x.rel \in DOMAIN q.relid_to_class_dict
              /\ subject_term \in {None, x.acc2}
              /\ object_term \in {None, x.acc1}}}

\* C28: in each of its four modes get_relationships, asked about terms of
\* the database, does not fail and returns the relationships of known type;
\* rows of an unknown type are left out.
C28_UnknownTypesExcluded ==
  \A subject_term \in {row.acc : row \in GoRows(db)} \cup {None},
     object_term \in {row.acc : row \in GoRows(db)} \cup {None} :
    LET r == sql_get_relationships(db, sql, subject_term, object_term) IN
    /\ r.exc = OK
    /\ r.val = KnownRelationships(db, sql, subject_term, object_term)


(***************************************************************************)
(* Query validation and rule restriction.                                  *)
(***************************************************************************)

\* C22: solving a query whose subject and object are both unbound raises
\* InvalidQueryError and returns nothing.
C22_BothUnbound ==
  \A o \in Ontologies, R \in RelClasses :
    Solve(World, o, UNBOUND, Class(R), UNBOUND) = Raised("InvalidQueryError")

\* x, a term object or an id, stands for no term of ontology o: no attached
\* term has the id of the object, or the id x, or the alias x.
NonMember(o, x) ==
  IF x \in Terms THEN ~IdAttached(o, x)
  ELSE \A m \in members[o] : x # TermId(m) /\ x \notin AliasSet(m)

\* C23: a query with a bound endpoint that is not a member of its ontology,
\* given as a term object or as an id, is rejected with NoSuchTermError, as
\* subject and as object, and is not solved.
C23_NonMemberEndpoint ==
  \A o \in Ontologies, R \in ConcreteClasses, x \in Terms \cup TermIds :
    NonMember(o, x) =>
      /\ Query_init(World, o, x, Class(R), UNBOUND).exc = "NoSuchTermError"
      /\ Query_init(World, o, UNBOUND, Class(R), x).exc = "NoSuchTermError"
      /\ Solve(World, o, x, Class(R), UNBOUND).exc = "NoSuchTermError"
      /\ Solve(World, o, UNBOUND, Class(R), x).exc = "NoSuchTermError"

\* C24: a query cannot be constructed with an unbound relation; assigning
\* UNBOUND to the relation of a query fails and keeps the relation it had; a
\* relation given by name, at construction or by assignment, becomes the
\* class registered under that name.
C24_RelationNeverUnbound ==
  \A S \in AttachedTerms \cup {UNBOUND}, R \in ConcreteClasses :
    LET query == Query_init(World, MainOntology, S, Class(R), UNBOUND)
        unbound == Query_set_relation(query.val, NoneType)
    IN
    /\ Query_init(World, MainOntology, S, NoneType, UNBOUND).exc = "ValueError"
    /\ query.exc = OK /\ query.val.relation = R
    /\ unbound.exc = "ValueError" /\ unbound.val.relation = R
    /\ \A N \in ConcreteClasses :
         /\ Query_init(World, MainOntology, S, Name(N), UNBOUND).exc = OK
         /\ Query_init(World, MainOntology, S, Name(N), UNBOUND).val.relation = N
         /\ Query_set_relation(query.val, Name(N)).exc = OK
         /\ Query_set_relation(query.val, Name(N)).val.relation = N

\* The default rules with their names resolved.
DefaultRuleList ==
  << Rule("regulates", "is_a", PyInt(1)),
     Rule("regulates", "part_of", Class("regulates")),
     Rule("part_of", "inheritable", Class("part_of")),
     Rule("is_a", "any", PyInt(2)) >>

\* s is t with some elements left out, the others in t's order.
RECURSIVE IsSubsequence(_, _)
IsSubsequence(s, t) ==
  IF s = << >> THEN TRUE
  ELSE IF t = << >> THEN FALSE
  ELSE IF Head(s) = Head(t) THEN IsSubsequence(Tail(s), Tail(t))
  ELSE IsSubsequence(s, Tail(t))

\* The reachable types expected for a target type.
ExpectedReachable(T) ==
  CASE T = "is_a" -> {"is_a"}
    [] T = "part_of" -> {"is_a", "part_of"}
    [] T = "regulates" -> {"is_a", "part_of", "regulates"}
    [] OTHER -> {"is_a", T}

\* C30: on a rule set made of the default rules (Rules() with no rules
\* given) restrict_to_rules_relevant_for returns, for each concrete target
\* type, the expected set of reachable types and rules in the order of the
\* default rule list, all of them for regulates.
C30_RestrictDefaultRules ==
  (args.fn = "apply" /\ args.rules = << >>) =>
    \A T \in ConcreteClasses :
      LET restricted ==
            Rules_restrict_to_rules_relevant_for(args.rules, Class(T))
      IN
      /\ restricted.exc = OK
      /\ restricted.val.relationships = ExpectedReachable(T)
      /\ IsSubsequence(restricted.val.rules, DefaultRuleList)
      /\ T = "regulates" => restricted.val.rules = DefaultRuleList

\* The type a rule list infers from a pair of chained types, or None.
RuleTable(rules, c1, c2) ==
  apply(rules, Relationship(c1, "tA", "tB"), Relationship(c2, "tB", "tA")).cls

\* Everything derivable from a set of facts by repeated composition under
\* a rule list.
RECURSIVE DerivableUnder(_, _)
DerivableUnder(F, rules) ==
  LET N == F \cup
        {Fact(RuleTable(rules, f.cls, g.cls), f.subject, g.object) :
           << f, g >> \in {x \in F \X F :
                            /\ x[1].object = x[2].subject
                            /\ RuleTable(rules, x[1].cls, x[2].cls) # None}}
  IN IF N = F THEN F ELSE DerivableUnder(N, rules)

\* C21: for every attached subject S and every type R, the restriction for
\* R is computed, and solving (S, R, unbound) over all edges with the full
\* rules gives the answers that the restricted rules derive from the edges
\* of reachable types alone.
C21_RestrictionKeepsAnswers ==
  \A S \in AttachedTerms, R \in ConcreteClasses :
    LET restricted == Rules_restrict_to_rules_relevant_for(<< >>, Class(R))
        full == Solve(World, MainOntology, S, Class(R), UNBOUND)
    IN
    /\ restricted.exc = OK
    /\ full.exc = OK
    /\ {AsFact(rel) : rel \in full.val} =
         {f \in DerivableUnder(
                  {g \in StoredFacts(MainOntology) :
                     g.cls \in restricted.val.relationships},
                  restricted.val.rules) :
            << f.cls, R >> \in TypeOrder /\ f.subject = TermId(S)}


(***************************************************************************)
(* Query markers.                                                          *)
(***************************************************************************)

\* A marker %s starts at position i of query q.
MarkerAt(q, i) == i < Len(q) /\ q[i] = "%" /\ q[i + 1] = "s"

\* The markers at or before position i; for a marker at i, its number.
MarkersUpTo(q, i) == Cardinality({p \in 1..i : MarkerAt(q, p)})

\* What the k-th marker becomes.
Placeholder(paramstyle, k) ==
  IF paramstyle = "qmark" THEN << "?" >>
  ELSE << ":", << "1", "2", "3", "4", "5", "6", "7", "8", "9" >>[k] >>

\* Where position i of the query is found in the result: every marker
\* before it has changed the length by that of its placeholder less two.
Moved(q, paramstyle, i) ==
  i + (Len(Placeholder(paramstyle, 1)) - 2) * MarkersUpTo(q, i - 1)

\* C29: for format the query is returned as it is; for qmark and numeric
\* the k-th marker %s from the left has become ? or :k at its place, every
\* character outside the markers is where it was relative to them, and the
\* result holds nothing else; the empty query stays empty.
C29_RewriteMarkers ==
  (ret # Pending /\ args.fn = "rewrite_db_query_markers") =>
    LET q == args.query
        style == args.paramstyle
        out == ret.val
    IN
    /\ ret.exc = OK
    /\ style = "format" => out = q
    /\ style # "format" =>
         /\ Len(out) = Moved(q, style, Len(q) + 1) - 1
         /\ \A i \in 1..Len(q) :
              IF MarkerAt(q, i)
              THEN SubSeq(out, Moved(q, style, i),
                          Moved(q, style, i) + Len(Placeholder(style, 1)) - 1)
                     = Placeholder(style, MarkersUpTo(q, i))
              ELSE IF i > 1 /\ MarkerAt(q, i - 1) THEN TRUE
              ELSE out[Moved(q, style, i)] = q[i]

\* A query with two markers and a ? between them has been rewritten for the
\* numeric style.
C29_Witness ==
  /\ ret # Pending
  /\ args.fn = "rewrite_db_query_markers"
  /\ args.paramstyle = "numeric"
  /\ args.query = << "%", "s", "?", "%", "s" >>
  /\ ret.val = << ":", "1", "?", ":", "2" >>


(***************************************************************************)
(* Failed mutations, overwritten edges, removed terms and owners.          *)
(***************************************************************************)

\* C33: a mutation of the in-memory store that raises leaves the attached
\* terms, the id and alias index, the nodes, the relationships and the
\* owner of every term as they were before the call.
C33_FailedMutationChangesNothing ==
  \A s \in Terms, d \in Terms, rel \in EdgeClasses :
    /\ add_term(World, MainOntology, s).exc # OK
         => add_term(World, MainOntology, s).w = World
    /\ remove_term(World, MainOntology, s).exc # OK
         => remove_term(World, MainOntology, s).w = World
    /\ add_relationship(World, MainOntology, s, d, rel).exc # OK
         => add_relationship(World, MainOntology, s, d, rel).w = World
    /\ remove_relationship(World, MainOntology, s, d, rel).exc # OK
         => remove_relationship(World, MainOntology, s, d, rel).w = World

\* C34: adding a relationship of type T2 from A to B, where one of another
\* type T1 is stored, keeps the stored one: afterwards get_relationships(A,
\* B) holds both and has_relationship(A, B, T1) is true, and every other
\* stored edge is what it was.
C34_AddRelationshipKeepsOthers ==
  \A A \in AttachedTerms, B \in AttachedTerms, T2 \in EdgeClasses :
    LET T1 == StoredClass(MainOntology, A, B)
        r == add_relationship(World, MainOntology, A, B, T2)
        after == get_relationships(r.w, MainOntology, A, B)
    IN
    (T1 # None /\ T1 # T2 /\ r.exc = OK) =>
      /\ after.exc = OK
      /\ \E rel \in after.val : rel.cls = T1
      /\ \E rel \in after.val : rel.cls = T2
      /\ has_relationship(r.w, MainOntology, A, B, T1)
      /\ \A p \in Pairs \ {<< TermId(A), TermId(B) >>} :
           r.w.dag_edges[MainOntology][p] = dag_edges[MainOntology][p]

\* C35: after remove_term(t) has succeeded, the id of t and every alias of
\* t fail to resolve with NoSuchTermError, no id resolves to a term that is
\* not attached, and a term with one of those ids that belongs to no
\* ontology can be added.
C35_RemovedTermUnresolvable ==
  \A t \in Terms :
    LET r == remove_term(World, MainOntology, t) IN
    r.exc = OK =>
      /\ \A id \in {TermId(t)} \cup AliasSet(t) :
           get_term_by_id(r.w, MainOntology, id).exc = "NoSuchTermError"
      /\ \A id \in TermIds :
           get_term_by_id(r.w, MainOntology, id).exc = OK =>
             get_term_by_id(r.w, MainOntology, id).val
               \in r.w.members[MainOntology]
      /\ \A u \in Terms :
           (r.w.ontology[u] = None
              /\ TermId(u) \in {TermId(t)} \cup AliasSet(t))
             => add_term(r.w, MainOntology, u).exc = OK

\* C36: whatever add_term and remove_term calls were made, a term object
\* constructed without an owner has ontology O as its owner exactly when it
\* is attached in O, and it is attached in at most one ontology.
C36_OwnerIffAttached ==
  \A t \in Terms \ OtherTerms :
    /\ \A o \in Ontologies : ontology[t] = o <=> t \in members[o]
    /\ \A o1 \in Ontologies, o2 \in Ontologies :
         (t \in members[o1] /\ t \in members[o2]) => o1 = o2


(***************************************************************************)
(* Associativity of composition.                                           *)
(***************************************************************************)

\* apply on two results of apply: no inference on either side gives no
\* inference.
Compose(rules, x, y) ==
  IF x = NoInference \/ y = NoInference THEN Returned(NoInference)
  ELSE Rules_apply(rules, x, y)

\* C39: under the default rules, for relationships a, b, c of concrete
\* types with a.object = b.subject and b.object = c.subject, every apply
\* returns, and apply(apply(a, b), c) and apply(a, apply(b, c)) are the same
\* relationship or both no inference.
C39_ApplyAssociative ==
  (args.fn = "apply" /\ args.rules = << >>
     /\ Chained(args.rel1, args.rel2)) =>
    \A c \in ConcreteRelationships :
      Chained(args.rel2, c) =>
        LET a == args.rel1
            b == args.rel2
            ab == Rules_apply(args.rules, a, b)
            bc == Rules_apply(args.rules, b, c)
        IN
        /\ ab.exc = OK /\ bc.exc = OK
        /\ Compose(args.rules, ab.val, c).exc = OK
        /\ Compose(args.rules, a, bc.val).exc = OK
        /\ Compose(args.rules, ab.val, c).val
             = Compose(args.rules, a, bc.val).val


(***************************************************************************)
(* The engine and the store.                                               *)
(***************************************************************************)

\* The queries with a relation and at least one bound endpoint, over the
\* attached terms.
BoundQueries ==
  {q \in (AttachedTerms \cup {UNBOUND}) \X ConcreteClasses
           \X (AttachedTerms \cup {UNBOUND}) :
     q[1] # UNBOUND \/ q[3] # UNBOUND}

\* C32: solving a query leaves every term and relationship of the ontology
\* as it was and returns a result, and solving the same query again, after
\* any other query was solved, returns that result again.
C32_SolveKeepsNoState ==
  \A q \in BoundQueries :
    LET res == Solve(World, MainOntology, q[1], Class(q[2]), q[3]) IN
    /\ Solve_effect(World, MainOntology, q[1], Class(q[2]), q[3]) = World
    /\ res.exc = OK
    /\ \A other \in BoundQueries :
         Solve(Solve_effect(World, MainOntology, other[1], Class(other[2]),
                            other[3]),
               MainOntology, q[1], Class(q[2]), q[3]) = res


(***************************************************************************)
(* The modes of get_relationships and the caches of the relational         *)
(* backend.                                                                *)
(***************************************************************************)

\* The ids of the GO terms of the database.
GoAccs == {row.acc : row \in GoRows(db)}

\* C37: whenever the calls return, get_relationships(subject=S) is the
\* union over the terms O of get_relationships(S, O), get_relationships(
\* object=O) the union over the terms S, and get_relationships() the union
\* over all pairs.
C37_ModesConsistent ==
  LET pair == [x \in GoAccs \X GoAccs |->
                 sql_get_relationships(db, sql, x[1], x[2])]
      all == sql_get_relationships(db, sql, None, None)
  IN
  (all.exc = OK /\ \A x \in GoAccs \X GoAccs : pair[x].exc = OK) =>
    /\ all.val = UNION {pair[x].val : x \in GoAccs \X GoAccs}
    /\ \A S \in GoAccs :
         LET by_subject == sql_get_relationships(db, sql, S, None) IN
         /\ by_subject.exc = OK
         /\ by_subject.val = UNION {pair[<< S, O >>].val : O \in GoAccs}
    /\ \A O \in GoAccs :
         LET by_object == sql_get_relationships(db, sql, None, O) IN
         /\ by_object.exc = OK
         /\ by_object.val = UNION {pair[<< S, O >>].val : S \in GoAccs}

\* The answer of a query, without the cache it leaves behind.
Answer(r) == [exc |-> r.exc, val |-> r.val]

\* C38: against the unchanged database, has_term, get_term_by_id,
\* get_terms_by_ids and get_relationships answer from the current cache
\* exactly as they answer right after clear_cache().
C38_CachesTransparent ==
  LET cold == clear_cache(db, sql) IN
  /\ \A term \in SqlIds :
       /\ sql_has_term(db, sql, term) = sql_has_term(db, cold, term)
       /\ Answer(sql_get_term_by_id(db, sql, term))
            = Answer(sql_get_term_by_id(db, cold, term))
  /\ \A term_ids \in IdSeqs :
       Answer(get_terms_by_ids(db, sql, term_ids))
         = Answer(get_terms_by_ids(db, cold, term_ids))
  /\ \A subject_term \in GoAccs \cup {None}, object_term \in GoAccs \cup {None} :
       Answer(sql_get_relationships(db, sql, subject_term, object_term))
         = Answer(sql_get_relationships(db, cold, subject_term, object_term))


(***************************************************************************)
(* The annotation collection.                                              *)
(***************************************************************************)

\* The term ids that have at least one associated gene.
AnnotatedTerms(c) ==
  {term_id \in DOMAIN c.term_ids_to_gene_ids : c.term_ids_to_gene_ids[term_id] # {}}

\* The gene ids that have at least one associated term.
AnnotatedGenes(c) ==
  {gene_id \in DOMAIN c.gene_ids_to_term_ids : c.gene_ids_to_term_ids[gene_id] # {}}

\* C40: after any sequence of calls get_number_of_terms() is the number of
\* term ids with at least one associated gene, and get_number_of_genes()
\* the number of gene ids with at least one associated term.
C40_CountsAreAssociations ==
  /\ get_number_of_terms(collection) = Cardinality(AnnotatedTerms(collection))
  /\ get_number_of_genes(collection) = Cardinality(AnnotatedGenes(collection))

====
